---- MODULE Spec2Model ----
(***************************************************************************)
(* CaliaDash (src/app.py): the inventory engine of the dashboard.          *)
(*                                                                         *)
(*   load_inventory   (lines 52-98)   spreadsheet -> canonical data frame  *)
(*   apply_priority_filter (256-259)  canonical frame -> filtered view     *)
(*   compute_insights (112-155)       frame -> metrics snapshot            *)
(*                                                                         *)
(* Text is a sequence of one-character strings, so that the code's string  *)
(* operations (lower, strip, contains, split, join, comparison) are        *)
(* computed and not assumed.  A data frame is a record                     *)
(*   [columns |-> set of column names, rows |-> sequence of rows]          *)
(* and a row is a function from the frame's column names to values.  A     *)
(* spreadsheet cell is [na |-> BOOLEAN, v |-> value]: na is pandas' NaN.   *)
(* Money is in whole currency units (integers); a quotient the code        *)
(* computes in floating point is kept as an exact fraction, or as NaN.     *)
(***************************************************************************)
EXTENDS Integers, Sequences, FiniteSets, TLC

(***************************************************************************)
(* Bounds of the model.                                                    *)
(***************************************************************************)
\* the largest number of rows of a spreadsheet
MaxRows == 3
\* the largest number of rows of a spreadsheet that lacks a column
MaxSchemaRows == 1
\* the largest number of rows of a workbook that already holds canonical records
MaxCanonicalRows == 2

(***************************************************************************)
(* Program constants (src/app.py lines 26-28).                             *)
(***************************************************************************)
MAC_REFERENCE_DEPRECIATION == 2145
LICENSE_REFERENCE_DEPRECIATION == 1200
LOW_COST_THRESHOLD == 800

(***************************************************************************)
(* Characters.  CodePoints lists the characters of the model in increasing *)
(* Unicode code point, the order Python compares strings by.               *)
(***************************************************************************)
UpperCase ==
  <<"A", "B", "C", "D", "E", "F", "G", "H", "I", "J", "K", "L", "M",
    "N", "O", "P", "Q", "R", "S", "T", "U", "V", "W", "X", "Y", "Z",
    "Á", "Ã", "Ç", "É", "Í", "Ú">>

LowerCase ==
  <<"a", "b", "c", "d", "e", "f", "g", "h", "i", "j", "k", "l", "m",
    "n", "o", "p", "q", "r", "s", "t", "u", "v", "w", "x", "y", "z",
    "á", "ã", "ç", "é", "í", "ú">>

\* the unaccented letter of each accented one (NFKD base character)
Unaccented ==
  <<"A", "A", "C", "E", "I", "U">> \o <<"a", "a", "c", "e", "i", "u">>

Accented ==
  <<"Á", "Ã", "Ç", "É", "Í", "Ú">> \o <<"á", "ã", "ç", "é", "í", "ú">>

CodePoints ==
  <<"\t", "\n", " ", "$", "%", "(", ")", ",", "-",
    "0", "1", "2", "3", "4", "5", "6", "7", "8", "9">>
  \o SubSeq(UpperCase, 1, 26) \o <<"_">> \o SubSeq(LowerCase, 1, 26)
  \o SubSeq(UpperCase, 27, 32) \o SubSeq(LowerCase, 27, 32)

Range(s) == {s[i] : i \in 1..Len(s)}

IndexIn(s, c) == CHOOSE i \in 1..Len(s) : s[i] = c

\* ord(c)
Ord(c) == IndexIn(CodePoints, c)

IsAscii(c) == c \notin Range(Accented)

Whitespace == {" ", "\t", "\n"}

Digits == {"0", "1", "2", "3", "4", "5", "6", "7", "8", "9"}

(***************************************************************************)
(* Python's str methods, on sequences of characters.                       *)
(***************************************************************************)
LowerChar(c) ==
  IF c \in Range(UpperCase) THEN LowerCase[IndexIn(UpperCase, c)] ELSE c

\* str.lower()
Lower(s) == [i \in 1..Len(s) |-> LowerChar(s[i])]

\* str.replace(old, new) for one-character old and new
Replace(s, old, new) == [i \in 1..Len(s) |-> IF s[i] = old THEN new ELSE s[i]]

RECURSIVE LStrip(_)
LStrip(s) ==
  IF s # <<>> /\ Head(s) \in Whitespace THEN LStrip(Tail(s)) ELSE s

RECURSIVE RStrip(_)
RStrip(s) ==
  IF s # <<>> /\ s[Len(s)] \in Whitespace
  THEN RStrip(SubSeq(s, 1, Len(s) - 1))
  ELSE s

\* str.strip()
Strip(s) == RStrip(LStrip(s))

\* pat in s
Contains(s, pat) ==
  \E i \in 1..(Len(s) - Len(pat) + 1) : SubSeq(s, i, i + Len(pat) - 1) = pat

\* str.split(): the maximal runs of non-whitespace characters
RECURSIVE Split(_)
Split(s) ==
  LET t == LStrip(s) IN
  IF t = <<>> THEN <<>>
  ELSE LET stops == {i \in 1..Len(t) : t[i] \in Whitespace}
           n == IF stops = {} THEN Len(t)
                ELSE (CHOOSE i \in stops : \A j \in stops : i <= j) - 1
       IN <<SubSeq(t, 1, n)>> \o Split(SubSeq(t, n + 1, Len(t)))

\* sep.join(words)
RECURSIVE Join(_, _)
Join(sep, words) ==
  IF words = <<>> THEN <<>>
  ELSE IF Len(words) = 1 THEN words[1]
  ELSE words[1] \o sep \o Join(sep, Tail(words))

\* s < t, Python's comparison of strings
RECURSIVE StrLess(_, _)
StrLess(s, t) ==
  IF t = <<>> THEN FALSE
  ELSE IF s = <<>> THEN TRUE
  ELSE IF Head(s) = Head(t) THEN StrLess(Tail(s), Tail(t))
  ELSE Ord(Head(s)) < Ord(Head(t))

(***************************************************************************)
(* _normalize_column (lines 34-45).                                        *)
(***************************************************************************)
\* unicodedata.normalize("NFKD", column).encode("ascii", "ignore").decode("ascii")
RECURSIVE NfkdAscii(_)
NfkdAscii(column) ==
  IF column = <<>> THEN <<>>
  ELSE LET c == Head(column)
           kept == IF IsAscii(c) THEN <<c>>
                   ELSE <<Unaccented[IndexIn(Accented, c)]>>
       IN kept \o NfkdAscii(Tail(column))

\* re.sub(r"[^0-9a-z ]+", " ", base): each run of other characters becomes one space
RECURSIVE SubNonAlnum(_)
SubNonAlnum(base) ==
  LET allowed == Range(SubSeq(LowerCase, 1, 26)) \cup Digits \cup {" "} IN
  IF base = <<>> THEN <<>>
  ELSE IF Head(base) \in allowed THEN <<Head(base)>> \o SubNonAlnum(Tail(base))
  ELSE IF Len(base) > 1 /\ base[2] \notin allowed THEN SubNonAlnum(Tail(base))
  ELSE <<" ">> \o SubNonAlnum(Tail(base))

_normalize_column(column) ==
  LET base == Lower(Strip(Replace(NfkdAscii(column), "\n", " ")))
  IN Join(<<"_">>, Split(SubNonAlnum(base)))

(***************************************************************************)
(* Cells and data frames.                                                  *)
(***************************************************************************)
\* an empty spreadsheet cell: pandas' NaN
NaN == [na |-> TRUE, v |-> <<>>]

\* a cell holding text
Str(s) == [na |-> FALSE, v |-> s]

\* a cell holding a number
Num(n) == [na |-> FALSE, v |-> n]

\* df[name]: the column as the sequence of its values
Col(df, name) == [i \in 1..Len(df.rows) |-> df.rows[i][name]]

\* the value x, computed once (a function is otherwise computed at each use)
Computed(x) == IF x = x THEN x ELSE x

\* df[name] = values
SetCol(df, name, values) ==
  Computed([columns |-> df.columns \cup {name},
            rows |-> [i \in 1..Len(df.rows) |->
                        [c \in df.columns \cup {name} |->
                           IF c = name THEN values[i] ELSE df.rows[i][c]]]])

\* df.rename(columns=mapping): mapping gives each column its new name
Rename(df, mapping) ==
  LET name == Computed(mapping)
      renamed == {name[c] : c \in df.columns}
  IN Computed([columns |-> renamed,
               rows |-> [i \in 1..Len(df.rows) |->
                           [n \in renamed |->
                              df.rows[i][CHOOSE c \in df.columns : name[c] = n]]]])

\* df[mask]: the rows whose mask entry is true, in their order
RECURSIVE SelectRows(_, _)
SelectRows(rows, mask) ==
  IF rows = <<>> THEN <<>>
  ELSE (IF Head(mask) THEN <<Head(rows)>> ELSE <<>>)
       \o SelectRows(Tail(rows), Tail(mask))

\* series.sum() of a numeric column: NaN entries are skipped
RECURSIVE SumCells(_)
SumCells(cells) ==
  IF cells = <<>> THEN 0
  ELSE (IF Head(cells).na THEN 0 ELSE Head(cells).v) + SumCells(Tail(cells))

\* mask.sum(): the number of true entries
CountTrue(mask) == Cardinality({i \in 1..Len(mask) : mask[i]})

\* whether series.str is usable: a column that read_excel filled only with
\* NaN is float64, and .str raises AttributeError on it; the columns of a
\* sheet without rows are of dtype object
HasStrAccessor(cells) ==
  cells = <<>> \/ \E i \in 1..Len(cells) : ~cells[i].na

\* series.str.strip(), NaN kept
StrStrip(cells) ==
  [i \in 1..Len(cells) |->
     IF cells[i].na THEN cells[i] ELSE Str(Strip(cells[i].v))]

\* series.fillna(value).astype(str)
FillNa(cells, value) ==
  [i \in 1..Len(cells) |-> IF cells[i].na THEN Str(value) ELSE cells[i]]

\* series.str.contains(pat, case=False, na=False)
StrContains(cells, pat) ==
  [i \in 1..Len(cells) |->
     IF cells[i].na THEN FALSE ELSE Contains(Lower(cells[i].v), Lower(pat))]

(***************************************************************************)
(* Column names of the canonical frame.                                    *)
(***************************************************************************)
col_nome == <<"n", "o", "m", "e">>
col_status == <<"s", "t", "a", "t", "u", "s">>
col_grupo == <<"g", "r", "u", "p", "o">>
col_usuario == <<"u", "s", "u", "a", "r", "i", "o">>
col_numero_inventario ==
  <<"n", "u", "m", "e", "r", "o", "_", "i", "n", "v", "e", "n", "t", "a", "r", "i", "o">>
col_tipo_item == <<"t", "i", "p", "o", "_", "i", "t", "e", "m">>
col_categoria == <<"c", "a", "t", "e", "g", "o", "r", "i", "a">>
col_valor_unitario ==
  <<"v", "a", "l", "o", "r", "_", "u", "n", "i", "t", "a", "r", "i", "o">>
col_perc_depreciacao ==
  <<"p", "e", "r", "c", "_", "d", "e", "p", "r", "e", "c", "i", "a", "c", "a", "o">>
col_vida_util_anos ==
  <<"v", "i", "d", "a", "_", "u", "t", "i", "l", "_", "a", "n", "o", "s">>
col_depreciacao_unitaria ==
  <<"d", "e", "p", "r", "e", "c", "i", "a", "c", "a", "o", "_",
    "u", "n", "i", "t", "a", "r", "i", "a">>
col_is_mac == <<"i", "s", "_", "m", "a", "c">>
col_is_license == <<"i", "s", "_", "l", "i", "c", "e", "n", "s", "e">>
col_is_low_cost == <<"i", "s", "_", "l", "o", "w", "_", "c", "o", "s", "t">>
col_tem_usuario == <<"t", "e", "m", "_", "u", "s", "u", "a", "r", "i", "o">>
col_tem_inventario ==
  <<"t", "e", "m", "_", "i", "n", "v", "e", "n", "t", "a", "r", "i", "o">>
col_rastreados == <<"r", "a", "s", "t", "r", "e", "a", "d", "o", "s">>
col_dep_referencia ==
  <<"d", "e", "p", "_", "r", "e", "f", "e", "r", "e", "n", "c", "i", "a">>
col_prioridade == <<"p", "r", "i", "o", "r", "i", "d", "a", "d", "e">>

\* rename_map (lines 56-68): normalized spreadsheet label -> column name
rename_map ==
  (col_nome :> col_nome)
  @@ (col_status :> col_status)
  @@ (col_grupo :> col_grupo)
  @@ (col_usuario :> col_usuario)
  @@ (<<"n", "u", "m", "e", "r", "o", "_", "d", "e", "_",
        "i", "n", "v", "e", "n", "t", "a", "r", "i", "o">> :> col_numero_inventario)
  @@ (<<"t", "i", "p", "o", "_", "d", "o", "_", "i", "t", "e", "m">> :> col_tipo_item)
  @@ (col_categoria :> col_categoria)
  @@ (<<"v", "a", "l", "o", "r", "_", "m", "e", "d", "i", "o", "_",
        "u", "n", "i", "t", "a", "r", "i", "o">> :> col_valor_unitario)
  @@ (<<"d", "e", "p", "r", "e", "c", "i", "a", "c", "a", "o", "_",
        "a", "n", "u", "a", "l", "_", "m", "e", "r", "c", "a", "d", "o">>
        :> col_perc_depreciacao)
  @@ (<<"v", "i", "d", "a", "_", "u", "t", "i", "l", "_", "a", "n", "o", "s", "_",
        "m", "e", "r", "c", "a", "d", "o">> :> col_vida_util_anos)
  @@ (<<"d", "e", "p", "r", "e", "c", "i", "a", "c", "a", "o", "_",
        "a", "n", "u", "a", "l", "_", "u", "n", "i", "t", "a", "r", "i", "a", "_", "r">>
        :> col_depreciacao_unitaria)

\* the new name df.rename(columns=rename_map) gives a column
MapColumn(c) == IF c \in DOMAIN rename_map THEN rename_map[c] ELSE c

(***************************************************************************)
(* Text constants of the code.                                             *)
(***************************************************************************)
\* "Sem inventário" (line 75)
SEM_INVENTARIO ==
  <<"S", "e", "m", " ", "i", "n", "v", "e", "n", "t", "á", "r", "i", "o">>

PREMIUM ==
  <<"P", "r", "e", "m", "i", "u", "m", " ", "c", "o", "n", "t", "r", "o", "l", "a", "d", "o">>

ESSENCIAL == <<"E", "s", "s", "e", "n", "c", "i", "a", "l">>

NAO_ESSENCIAL ==
  <<"N", "ã", "o", " ", "e", "s", "s", "e", "n", "c", "i", "a", "l">>

\* "Inventário completo" (lines 257, 591)
INVENTARIO_COMPLETO ==
  <<"I", "n", "v", "e", "n", "t", "á", "r", "i", "o", " ",
    "c", "o", "m", "p", "l", "e", "t", "o">>

\* "Sem Uso" (line 130)
SEM_USO == <<"S", "e", "m", " ", "U", "s", "o">>

\* {"computador", "telefone", "monitor", "impressora"} (line 93)
ESSENTIAL_TYPES ==
  {<<"c", "o", "m", "p", "u", "t", "a", "d", "o", "r">>,
   <<"t", "e", "l", "e", "f", "o", "n", "e">>,
   <<"m", "o", "n", "i", "t", "o", "r">>,
   <<"i", "m", "p", "r", "e", "s", "s", "o", "r", "a">>}

(***************************************************************************)
(* load_inventory (lines 52-98): the normalizer.                           *)
(***************************************************************************)
\* the outcome of a call: the exception it raised, or the value it returned
Raised(exception) == [error |-> exception, value |-> <<>>]

Returned(v) == [error |-> "", value |-> <<v>>]

\* lines 74-76: fillna("Sem inventário").astype(str).str.strip()
numero_inventario(cells) == StrStrip(FillNa(cells, SEM_INVENTARIO))

\* line 77: fillna("").astype(str).str.strip()
usuario(cells) == StrStrip(FillNa(cells, <<>>))

\* line 79
is_mac(nome) == StrContains(nome, <<"m", "a", "c">>)

\* line 80
is_license(tipo_item) == StrContains(tipo_item, <<"l", "i", "c", "e", "n", "c", "a">>)

\* line 81: a NaN value compares false
is_low_cost(valor) ==
  [i \in 1..Len(valor) |-> ~valor[i].na /\ valor[i].v <= LOW_COST_THRESHOLD]

\* line 82
tem_usuario(usuarios) == [i \in 1..Len(usuarios) |-> Len(usuarios[i].v) > 0]

\* line 83
tem_inventario(numeros) ==
  LET sem == StrContains(numeros, <<"s", "e", "m">>)
  IN [i \in 1..Len(numeros) |-> ~sem[i]]

\* line 84 with | for &
rastreados_either(tem_usr, tem_inv) ==
  [i \in 1..Len(tem_usr) |-> tem_usr[i] \/ tem_inv[i]]

\* line 84
rastreados(tem_usr, tem_inv) ==
  [i \in 1..Len(tem_usr) |-> tem_usr[i] /\ tem_inv[i]]

\* lines 86-88 with lines 87 and 88 exchanged: the mac override applied last
dep_referencia_mac_last(depreciacao, mac, license) ==
  LET after_license == [i \in 1..Len(depreciacao) |->
                          IF license[i] THEN Num(LICENSE_REFERENCE_DEPRECIATION)
                          ELSE depreciacao[i]]
  IN [i \in 1..Len(depreciacao) |->
        IF mac[i] THEN Num(MAC_REFERENCE_DEPRECIATION) ELSE after_license[i]]

\* lines 86-88: the unit depreciation, overridden for macs, then for licenses
dep_referencia(depreciacao, mac, license) ==
  LET base == depreciacao
      after_mac == [i \in 1..Len(base) |->
                      IF mac[i] THEN Num(MAC_REFERENCE_DEPRECIATION) ELSE base[i]]
  IN [i \in 1..Len(base) |->
        IF license[i] THEN Num(LICENSE_REFERENCE_DEPRECIATION) ELSE after_mac[i]]

\* lines 90-95 with the item type tested before the flags
classify_priority_type_first(row) ==
  IF ~row[col_tipo_item].na /\ Lower(row[col_tipo_item].v) \in ESSENTIAL_TYPES
  THEN Returned(ESSENCIAL)
  ELSE IF row[col_is_mac] \/ row[col_is_license] THEN Returned(PREMIUM)
  ELSE IF row[col_tipo_item].na THEN Raised("AttributeError")
  ELSE Returned(NAO_ESSENCIAL)

\* lines 90-95; row["tipo_item"].lower() raises AttributeError on NaN
classify_priority(row) ==
  IF row[col_is_mac] \/ row[col_is_license] THEN Returned(PREMIUM)
  ELSE IF row[col_tipo_item].na THEN Raised("AttributeError")
  ELSE IF Lower(row[col_tipo_item].v) \in ESSENTIAL_TYPES THEN Returned(ESSENCIAL)
  ELSE Returned(NAO_ESSENCIAL)

\* lines 71-88: the coerced columns and the derived flags
WithFlags(df) ==
  LET d1 == SetCol(df, col_categoria, StrStrip(Col(df, col_categoria)))
      d2 == SetCol(d1, col_numero_inventario,
                   numero_inventario(Col(d1, col_numero_inventario)))
      d3 == SetCol(d2, col_usuario, usuario(Col(d2, col_usuario)))
      d4 == SetCol(d3, col_is_mac, is_mac(Col(d3, col_nome)))
      d5 == SetCol(d4, col_is_license, is_license(Col(d4, col_tipo_item)))
      d6 == SetCol(d5, col_is_low_cost, is_low_cost(Col(d5, col_valor_unitario)))
      d7 == SetCol(d6, col_tem_usuario, tem_usuario(Col(d6, col_usuario)))
      d8 == SetCol(d7, col_tem_inventario,
                   tem_inventario(Col(d7, col_numero_inventario)))
      d9 == SetCol(d8, col_rastreados,
                   rastreados(Col(d8, col_tem_usuario), Col(d8, col_tem_inventario)))
  IN SetCol(d9, col_dep_referencia,
            dep_referencia(Col(d9, col_depreciacao_unitaria),
                           Col(d9, col_is_mac), Col(d9, col_is_license)))

\* What df.apply(func, axis=1) gives on a frame without rows depends on the
\* pandas installed, and the repository pins no version: "reduced" where
\* apply tries func on a row of NaN, which classify_priority takes for a
\* Premium row (NaN is truthy), and so returns a column without entries;
\* "copy" where apply tries func on a row without labels, which raises
\* inside, and so returns a copy of the frame.
VARIABLE apply_empty_result

\* line 97: df["prioridade"] = df.apply(classify_priority, axis=1).  On a frame
\* without rows the column assigned is empty where apply reduces, and the
\* assignment of a frame to one column raises ValueError where apply copies.
WithPriority(df) ==
  LET outcome == [i \in 1..Len(df.rows) |-> classify_priority(df.rows[i])] IN
  IF df.rows = <<>>
  THEN (IF apply_empty_result = "copy" THEN Raised("ValueError")
        ELSE Returned(SetCol(df, col_prioridade, <<>>)))
  ELSE IF \E i \in 1..Len(outcome) : outcome[i].error # ""
  THEN Raised("AttributeError")
  ELSE Returned(SetCol(df, col_prioridade,
                       [i \in 1..Len(outcome) |-> outcome[i].value[1]]))

\* the first column that lines 71-80 index and the frame lacks, <<>> if none
FirstMissing(df) ==
  LET needed == <<col_valor_unitario, col_depreciacao_unitaria, col_categoria,
                  col_numero_inventario, col_usuario, col_nome, col_tipo_item>>
      absent == {i \in 1..Len(needed) : needed[i] \notin df.columns}
  IN IF absent = {} THEN <<>>
     ELSE <<needed[CHOOSE i \in absent : \A j \in absent : i <= j]>>

\* the first column on which lines 73-80 use .str, though it has none
FirstWithoutStr(df) ==
  LET used == <<col_categoria, col_nome, col_tipo_item>>
      bad == {i \in 1..Len(used) :
                used[i] \in df.columns /\ ~HasStrAccessor(Col(df, used[i]))}
  IN IF bad = {} THEN <<>>
     ELSE <<used[CHOOSE i \in bad : \A j \in bad : i <= j]>>

\* whether column a is indexed before column b by lines 71-80
IndexedBefore(a, b) ==
  LET order == <<col_valor_unitario, col_depreciacao_unitaria, col_categoria,
                 col_numero_inventario, col_usuario, col_nome, col_tipo_item>>
  IN IndexIn(order, a) < IndexIn(order, b)

load_inventory(sheet) ==
  LET normalized == Rename(sheet, [col \in sheet.columns |-> _normalize_column(col)])
      df == Rename(normalized, [col \in normalized.columns |-> MapColumn(col)])
      missing == FirstMissing(df)
      nostr == FirstWithoutStr(df)
  IN IF missing # <<>> /\ (nostr = <<>> \/ ~IndexedBefore(nostr[1], missing[1]))
     THEN Raised("KeyError")
     ELSE IF nostr # <<>> THEN Raised("AttributeError")
     ELSE WithPriority(WithFlags(df))

(***************************************************************************)
(* apply_priority_filter (lines 256-259).                                  *)
(***************************************************************************)
\* lines 256-259 without the test that the selection is present
apply_priority_filter_always(df, selection) ==
  LET prioridade == Col(df, col_prioridade) IN
  IF selection = INVENTARIO_COMPLETO
  THEN df
  ELSE [columns |-> df.columns,
        rows |-> SelectRows(df.rows,
                            [i \in 1..Len(prioridade) |-> prioridade[i] = selection])]

apply_priority_filter(df, selection) ==
  LET prioridade == Col(df, col_prioridade) IN
  IF selection = INVENTARIO_COMPLETO \/ selection \notin Range(prioridade)
  THEN df
  ELSE [columns |-> df.columns,
        rows |-> SelectRows(df.rows,
                            [i \in 1..Len(prioridade) |-> prioridade[i] = selection])]

(***************************************************************************)
(* State.                                                                  *)
(***************************************************************************)
VARIABLES
  path_exists,   \* whether data/valores.xlsx is there
  sheet,         \* what pd.read_excel returned: labels as typed, cells as read
  argsort_ties,  \* the order numpy's default (unstable) sort leaves equal keys in
  pc,            \* "start", "loaded", "global", "filtered", "done", "failed", "stopped"
  df,            \* <<the frame the loader returned>>, <<>> before it is loaded
  error,         \* the exception that ended the run, "" if none
  global_kpis,   \* <<snapshot of the whole frame>>, <<>> before it is computed
  selection,     \* the priority selected, <<>> before the selection
  filtered_df,   \* <<the filtered view>>, <<>> before the selection
  view_kpis      \* <<snapshot of the filtered view>>, <<>> before it is computed

vars ==
  <<apply_empty_result, path_exists, sheet, argsort_ties, pc, df, error, global_kpis,
    selection, filtered_df, view_kpis>>

(***************************************************************************)
(* compute_insights (lines 112-155): the aggregator.                       *)
(***************************************************************************)
\* a float that is the exact quotient num / den
Frac(num, den) == [nan |-> FALSE, num |-> num, den |-> den]

\* float("nan")
FloatNaN == [nan |-> TRUE, num |-> 0, den |-> 1]

\* whether the float x is the number n
FloatIs(x, n) == ~x.nan /\ x.num = n * x.den

\* whether the floats x and y are the same number
FloatEq(x, y) == ~x.nan /\ ~y.nan /\ x.num * y.den = y.num * x.den

\* mask.mean() * 100: the mean of no values is NaN
MeanPct(mask) ==
  IF Len(mask) = 0 THEN FloatNaN ELSE Frac(CountTrue(mask) * 100, Len(mask))

\* the raw labels lines 115-116 look up with df.get
LABEL_DEP_UNITARIA ==
  <<"D", "e", "p", "r", "e", "c", "i", "a", "ç", "ã", "o", " ", "a", "n", "u", "a", "l", " ",
    "u", "n", "i", "t", "á", "r", "i", "a", " ", "(", "R", "$", ")">>

LABEL_DEP_MERCADO ==
  <<"D", "e", "p", "r", "e", "c", "i", "a", "c", "a", "o", " ", "a", "n", "u", "a", "l",
    "_", "%", " ", "(", "m", "e", "r", "c", "a", "d", "o", ")">>

\* lines 114-119: df.get(label) is None for an absent column, and `or` on a
\* column that is present raises ValueError (the truth value of a Series is
\* ambiguous); with both absent the sum is that of a column of zeros
total_dep(frame) ==
  IF LABEL_DEP_UNITARIA \in frame.columns \/ LABEL_DEP_MERCADO \in frame.columns
  THEN Raised("ValueError")
  ELSE Returned(SumCells([i \in 1..Len(frame.rows) |-> Num(0)]))

\* the keys of df.groupby("grupo"): the groups present, NaN dropped, ascending
GroupKeys(frame) ==
  LET present == {c.v : c \in {x \in Range(Col(frame, col_grupo)) : ~x.na}}
      n == Cardinality(present)
  IN CHOOSE s \in [1..n -> present] :
       \A i, j \in 1..n : i < j => StrLess(s[i], s[j])

\* line 132: df.groupby("grupo")["valor_unitario"].sum()
groupby_sum(frame) ==
  LET keys == GroupKeys(frame)
      grupo == Col(frame, col_grupo)
  IN [k \in 1..Len(keys) |->
        [grupo |-> keys[k],
         valor_unitario |->
           SumCells(SelectRows(Col(frame, col_valor_unitario),
                               [i \in 1..Len(grupo) |-> grupo[i] = Str(keys[k])]))]]

\* line 132: series.sort_values(ascending=False) with the default kind,
\* quicksort, which does not fix the order of equal values: ties says how
\* the build leaves them
sort_values(series, ties) ==
  LET n == Len(series)
      Before(i, j) ==
        \/ series[i].valor_unitario > series[j].valor_unitario
        \/ /\ series[i].valor_unitario = series[j].valor_unitario
           /\ IF ties = "stable" THEN i < j ELSE i > j
      p == CHOOSE q \in Permutations(1..n) :
             \A a, b \in 1..n : a < b => Before(q[a], q[b])
  IN [a \in 1..n |-> series[p[a]]]

\* line 134 with head(3)
head3(series) == SubSeq(series, 1, IF Len(series) < 3 THEN Len(series) ELSE 3)

\* line 134: series.head(2)
head2(series) == SubSeq(series, 1, IF Len(series) < 2 THEN Len(series) ELSE 2)

\* the first column compute_insights indexes and the frame lacks, <<>> if none
FirstMissingInsight(frame) ==
  LET needed == <<col_valor_unitario, col_is_mac, col_is_license, col_is_low_cost,
                  col_rastreados, col_status, col_grupo, col_dep_referencia>>
      absent == {i \in 1..Len(needed) : needed[i] \notin frame.columns}
  IN IF absent = {} THEN <<>>
     ELSE <<needed[CHOOSE i \in absent : \A j \in absent : i <= j]>>

\* lines 113-155 once every column is there; total is total_dep
Insights(frame, total, ties) ==
  LET total_items == IF Len(frame.rows) = 0 THEN 1 ELSE Len(frame.rows)
      mac_mask == Col(frame, col_is_mac)
      lic_mask == Col(frame, col_is_license)
      low_mask == Col(frame, col_is_low_cost)
      tracked_mask == Col(frame, col_rastreados)
      dep == Col(frame, col_dep_referencia)
      status == Col(frame, col_status)
      sem_uso == Cardinality({i \in 1..Len(status) : status[i] = Str(SEM_USO)})
      centros == sort_values(groupby_sum(frame), ties)
      centros_sum == SumCells([i \in 1..Len(centros) |-> Num(centros[i].valor_unitario)])
      centros_total == IF centros_sum = 0 THEN 1 ELSE centros_sum
      top_centros == head2(centros)
      top_sum == SumCells([i \in 1..Len(top_centros) |->
                             Num(top_centros[i].valor_unitario)])
  IN [total_dep |-> total,
      patrimonio_total |-> SumCells(Col(frame, col_valor_unitario)),
      avg_dep |-> Frac(total, total_items),
      mac_dep |-> SumCells(SelectRows(dep, mac_mask)),
      license_dep |-> SumCells(SelectRows(dep, lic_mask)),
      mac_count |-> CountTrue(mac_mask),
      license_count |-> CountTrue(lic_mask),
      tracked_pct |-> MeanPct(tracked_mask),
      tracked_count |-> CountTrue(tracked_mask),
      low_cost_dep |-> SumCells(SelectRows(dep, low_mask)),
      low_cost_count |-> CountTrue(low_mask),
      low_cost_pct |-> MeanPct(low_mask),
      sem_uso_pct |-> Frac(sem_uso * 100, total_items),
      sem_uso_count |-> sem_uso,
      centros |-> centros,
      top_centros_share |->
        IF top_centros # <<>> THEN Frac(top_sum * 100, centros_total) ELSE Frac(0, 1),
      top_centros_names |->
        Join(<<",", " ">>, [i \in 1..Len(top_centros) |-> top_centros[i].grupo]),
      total_items |-> Len(frame.rows)]

compute_insights(frame) ==
  LET total == total_dep(frame) IN
  IF total.error # "" THEN Raised(total.error)
  ELSE IF FirstMissingInsight(frame) # <<>> THEN Raised("KeyError")
  ELSE Returned(Insights(frame, total.value[1], argsort_ties))

(***************************************************************************)
(* What a call leaves in the frame it was passed: a DataFrame is a mutable *)
(* object, and the caller's df is the object the callee was given.         *)
(***************************************************************************)
\* lines 113-155 read df (get, [], loc on the right-hand side, groupby) and
\* assign nothing into it
compute_insights_leaves(frame) == frame

\* lines 257-259: unique() and == read df, and df[mask] builds a new frame
apply_priority_filter_leaves(frame, chosen) == frame

\* line 258: whether the frame returned is the very object passed in
ReturnsSameObject(frame, chosen) ==
  chosen = INVENTARIO_COMPLETO \/ chosen \notin Range(Col(frame, col_prioridade))

(***************************************************************************)
(* The spreadsheets the model reads: the labels of data/valores.xlsx as    *)
(* rename_map expects them after normalization, and a catalogue of rows.   *)
(* A cell left empty is NaN in what pd.read_excel returns, never the empty *)
(* text; a cell of blanks is text.                                         *)
(***************************************************************************)
LABEL_NOME == <<"N", "o", "m", "e">>
LABEL_STATUS == <<"S", "t", "a", "t", "u", "s">>
LABEL_GRUPO == <<"G", "r", "u", "p", "o">>
LABEL_USUARIO == <<"U", "s", "u", "á", "r", "i", "o">>
LABEL_NUMERO ==
  <<"N", "ú", "m", "e", "r", "o", " ", "d", "e", " ",
    "i", "n", "v", "e", "n", "t", "á", "r", "i", "o">>
LABEL_TIPO == <<"T", "i", "p", "o", " ", "d", "o", " ", "i", "t", "e", "m">>
LABEL_CATEGORIA == <<" ", "C", "a", "t", "e", "g", "o", "r", "i", "a", " ">>
LABEL_VALOR ==
  <<"V", "a", "l", "o", "r", " ", "m", "é", "d", "i", "o", "\n",
    "u", "n", "i", "t", "á", "r", "i", "o">>
LABEL_VIDA_UTIL ==
  <<"V", "i", "d", "a", " ", "ú", "t", "i", "l", "_", "a", "n", "o", "s", " ",
    "(", "m", "e", "r", "c", "a", "d", "o", ")">>

SheetColumns ==
  {LABEL_NOME, LABEL_STATUS, LABEL_GRUPO, LABEL_USUARIO, LABEL_NUMERO, LABEL_TIPO,
   LABEL_CATEGORIA, LABEL_VALOR, LABEL_DEP_MERCADO, LABEL_VIDA_UTIL,
   LABEL_DEP_UNITARIA}

SheetRow(nome, tipo, usr, numero, grupo, valor, depreciacao, status) ==
  (LABEL_NOME :> nome) @@ (LABEL_TIPO :> tipo) @@ (LABEL_USUARIO :> usr)
  @@ (LABEL_NUMERO :> numero) @@ (LABEL_GRUPO :> grupo) @@ (LABEL_VALOR :> Num(valor))
  @@ (LABEL_DEP_UNITARIA :> Num(depreciacao)) @@ (LABEL_STATUS :> status)
  @@ (LABEL_CATEGORIA :> Str(<<"H", "a", "r", "d", "w", "a", "r", "e", " ">>))
  @@ (LABEL_DEP_MERCADO :> Num(20)) @@ (LABEL_VIDA_UTIL :> Num(5))

TI == Str(<<"T", "I">>)
RH == Str(<<"R", "H">>)
ADM == Str(<<"A", "D", "M">>)
EM_USO == Str(<<"E", "m", " ", "u", "s", "o">>)

SheetRows ==
  {\* a mac that is a computer, with owner and inventory number
   SheetRow(Str(<<"M", "a", "c", "B", "o", "o", "k", " ", "P", "r", "o">>),
            Str(<<"C", "o", "m", "p", "u", "t", "a", "d", "o", "r">>),
            Str(<<"a", "n", "a">>), Str(<<"I", "N", "V", "-", "0", "0", "1">>),
            TI, 1000, 300, EM_USO),
   \* a license, no owner, no inventory number
   SheetRow(Str(<<"O", "f", "f", "i", "c", "e", " ", "3", "6", "5">>),
            Str(<<"L", "i", "c", "e", "n", "c", "a", " ", "d", "e", " ",
                  "s", "o", "f", "t", "w", "a", "r", "e">>),
            NaN, NaN, RH, 500, 100, EM_USO),
   \* a mac and a license, a blank inventory number, idle
   SheetRow(Str(<<"M", "a", "c", " ", "A", "d", "o", "b", "e">>),
            Str(<<"L", "I", "C", "E", "N", "C", "A">>),
            Str(<<" ", "b", "i", "a", " ">>), Str(<<" ", " ">>),
            TI, 500, 400, Str(SEM_USO)),
   \* a computer in capitals, owner missing, the sentinel typed in, idle
   SheetRow(Str(<<"D", "e", "l", "l", " ", "L", "a", "t", "i", "t", "u", "d", "e">>),
            Str(<<"C", "O", "M", "P", "U", "T", "A", "D", "O", "R">>),
            NaN, Str(SEM_INVENTARIO), RH, 1000, 250, Str(SEM_USO)),
   \* a monitor with an owner, the inventory number left empty, status in
   \* another case
   SheetRow(Str(<<"M", "o", "n", "i", "t", "o", "r", " ", "L", "G">>),
            Str(<<"m", "o", "n", "i", "t", "o", "r">>),
            Str(<<"d", "a", "n", "i">>), NaN,
            ADM, 500, 50, Str(<<"s", "e", "m", " ", "u", "s", "o">>)),
   \* no item type and not a mac
   SheetRow(Str(<<"M", "o", "u", "s", "e">>), NaN,
            Str(<<"e", "v", "a">>), Str(<<"I", "N", "V", "-", "0", "0", "3">>),
            ADM, 100, 10, EM_USO),
   \* no item type, a mac
   SheetRow(Str(<<"i", "M", "a", "c">>), NaN,
            NaN, Str(<<"I", "N", "V", "-", "0", "0", "4">>),
            TI, 1000, 500, EM_USO),
   \* a printer typed with a trailing space, an inventory number holding "SEM",
   \* no group, at the low-cost threshold
   SheetRow(Str(<<"I", "m", "p", "r", "e", "s", "s", "o", "r", "a", " ", "H", "P">>),
            Str(<<"I", "m", "p", "r", "e", "s", "s", "o", "r", "a", " ">>),
            Str(<<"f", "a", "b", "i", "o">>),
            Str(<<"A", "S", "S", "E", "M", "B", "L", "Y", "-", "7">>),
            NaN, 800, 60, Str(<<"N", "o", "v", "o">>))}

\* the sheets with every column, of at most n rows
FullSheets(n) ==
  {[columns |-> SheetColumns, rows |-> r] :
     r \in UNION {[1..k -> SheetRows] : k \in 0..n}}

\* df.drop(columns=[label])
DropColumn(s, label) ==
  [columns |-> s.columns \ {label},
   rows |-> [i \in 1..Len(s.rows) |->
               [c \in s.columns \ {label} |-> s.rows[i][c]]]]

Sheets ==
  FullSheets(MaxRows)
  \cup {DropColumn(s, label) : s \in FullSheets(MaxSchemaRows), label \in SheetColumns}

\* the priorities st.radio offers (line 591)
RadioOptions == {INVENTARIO_COMPLETO, PREMIUM, ESSENCIAL, NAO_ESSENCIAL}

\* the selections apply_priority_filter is given: those of st.radio, and a
\* text that is none of them
Selections == RadioOptions \cup {<<"O", "u", "t", "r", "o">>}

\* the canonical frame without rows
EmptyCanonical ==
  LET empty == [columns |-> SheetColumns, rows |-> <<>>]
      normalized == Rename(empty, [col \in empty.columns |-> _normalize_column(col)])
      flagged == WithFlags(Rename(normalized,
                                  [col \in normalized.columns |-> MapColumn(col)]))
  IN [columns |-> flagged.columns \cup {col_prioridade}, rows |-> <<>>]

\* the ways apply may treat a frame without rows, as far as they can show:
\* only a frame without rows reaches that branch of line 97, and the frame
\* has the rows of the workbook, so with rows in the workbook every build
\* behaves alike and one stands for all
EmptyResults(workbook) ==
  IF workbook.rows = <<>> THEN {"reduced", "copy"} ELSE {"reduced"}

(***************************************************************************)
(* The functions applied to one another's results, as the pipeline they    *)
(* are written for: load_inventory as defined at lines 52-98 on a          *)
(* workbook, compute_insights on the canonical frame, apply_priority_filter *)
(* on it, compute_insights on the view.  No run of render is this: render  *)
(* calls the later load_inventory of lines 103-108, see Spec below.        *)
(***************************************************************************)
\* a sheet has been read and nothing computed yet
InitSheet ==
  /\ sheet \in Sheets
  /\ pc = "start"
  /\ df = <<>>

\* the query boundary entered with the canonical collection that has no record
InitEmpty ==
  /\ sheet = [columns |-> SheetColumns, rows |-> <<>>]
  /\ pc = "loaded"
  /\ df = <<EmptyCanonical>>

PipelineInit ==
  /\ InitSheet \/ InitEmpty
  /\ apply_empty_result \in EmptyResults(sheet)
  /\ path_exists = TRUE
  /\ argsort_ties \in {"stable", "reversed"}
  /\ error = ""
  /\ global_kpis = <<>>
  /\ selection = <<>>
  /\ filtered_df = <<>>
  /\ view_kpis = <<>>

\* df = load_inventory(path) with the definition of lines 52-98, the normalizer
Load ==
  /\ pc = "start"
  /\ LET r == load_inventory(sheet) IN
       /\ pc' = IF r.error = "" THEN "loaded" ELSE "failed"
       /\ error' = r.error
       /\ df' = r.value
  /\ UNCHANGED <<apply_empty_result, path_exists, sheet, argsort_ties, global_kpis,
                 selection, filtered_df, view_kpis>>

\* global_kpis = compute_insights(df) (line 584)
GlobalInsights ==
  /\ pc = "loaded"
  /\ LET r == compute_insights(df[1]) IN
       /\ pc' = IF r.error = "" THEN "global" ELSE "failed"
       /\ error' = r.error
       /\ global_kpis' = r.value
  /\ df' = <<compute_insights_leaves(df[1])>>
  /\ UNCHANGED <<apply_empty_result, path_exists, sheet, argsort_ties, selection,
                 filtered_df, view_kpis>>

\* filtered_df = apply_priority_filter(df, selection), for any selection
Filter ==
  /\ pc = "global"
  /\ \E chosen \in Selections :
       /\ selection' = chosen
       /\ filtered_df' = <<apply_priority_filter(df[1], chosen)>>
       /\ df' = <<apply_priority_filter_leaves(df[1], chosen)>>
  /\ pc' = "filtered"
  /\ UNCHANGED <<apply_empty_result, path_exists, sheet, argsort_ties, error,
                 global_kpis, view_kpis>>

\* view_kpis = compute_insights(filtered_df) (line 595)
ViewInsights ==
  /\ pc = "filtered"
  /\ LET r == compute_insights(filtered_df[1]) IN
       /\ pc' = IF r.error = "" THEN "done" ELSE "failed"
       /\ error' = r.error
       /\ view_kpis' = r.value
  /\ filtered_df' = <<compute_insights_leaves(filtered_df[1])>>
  /\ df' = IF ReturnsSameObject(df[1], selection) THEN filtered_df' ELSE df
  /\ UNCHANGED <<apply_empty_result, path_exists, sheet, argsort_ties, global_kpis, selection>>

PipelineNext == Load \/ GlobalInsights \/ Filter \/ ViewInsights

PipelineSpec == PipelineInit /\ [][PipelineNext]_vars

(***************************************************************************)
(* The application as render runs it (lines 581-595). Python binds the     *)
(* name load_inventory to its last definition, lines 103-108, so that is   *)
(* the loader render calls; the steps after it are those of lines 584-595. *)
(***************************************************************************)
\* the columns of a canonical frame that hold text cells
TextColumns ==
  {col_nome, col_status, col_grupo, col_usuario, col_numero_inventario, col_tipo_item,
   col_categoria}

\* pd.read_excel of a saved frame: a text cell saved empty is read as NaN
BlankAsNaN(frame) ==
  Computed([columns |-> frame.columns,
            rows |-> [i \in 1..Len(frame.rows) |->
                        [c \in frame.columns |->
                           IF c \in TextColumns /\ frame.rows[i][c] = Str(<<>>)
                           THEN NaN ELSE frame.rows[i][c]]]])

\* workbooks that already hold canonical records: the frames lines 52-98
\* produce from sheets with rows, saved and read again, and the workbook
\* that has the canonical labels and no row
CanonicalSheets ==
  {BlankAsNaN(load_inventory(s).value[1]) :
     s \in {t \in FullSheets(MaxCanonicalRows) :
              t.rows # <<>> /\ load_inventory(t).error = ""}}
  \cup {EmptyCanonical}

\* what data/valores.xlsx may hold: raw labels, or canonical records already
Workbooks == Sheets \cup CanonicalSheets

\* the workbook without a sheet, standing for the file that is not there
NoWorkbook == [columns |-> {}, rows |-> <<>>]

Init ==
  /\ \/ path_exists = TRUE /\ sheet \in Workbooks
     \/ path_exists = FALSE /\ sheet = NoWorkbook
  /\ apply_empty_result \in EmptyResults(sheet)
  /\ argsort_ties \in {"stable", "reversed"}
  /\ pc = "start"
  /\ df = <<>>
  /\ error = ""
  /\ global_kpis = <<>>
  /\ selection = <<>>
  /\ filtered_df = <<>>
  /\ view_kpis = <<>>

\* df = load_inventory(DATA_PATH) (line 583) with the definition of lines
\* 103-108: st.stop() if the file is not there, else what pd.read_excel gives
RenderLoad ==
  /\ pc = "start"
  /\ IF path_exists
     THEN pc' = "loaded" /\ df' = <<sheet>>
     ELSE pc' = "stopped" /\ df' = df
  /\ UNCHANGED <<apply_empty_result, path_exists, sheet, argsort_ties, error,
                 global_kpis, selection, filtered_df, view_kpis>>

\* selection = st.radio(...) (lines 586-593), one of the options offered;
\* filtered_df = apply_priority_filter(df, selection) (line 594)
RenderFilter ==
  /\ pc = "global"
  /\ \E chosen \in RadioOptions :
       /\ selection' = chosen
       /\ filtered_df' = <<apply_priority_filter(df[1], chosen)>>
       /\ df' = <<apply_priority_filter_leaves(df[1], chosen)>>
  /\ pc' = "filtered"
  /\ UNCHANGED <<apply_empty_result, path_exists, sheet, argsort_ties, error,
                 global_kpis, view_kpis>>

Next == RenderLoad \/ GlobalInsights \/ RenderFilter \/ ViewInsights

Spec == Init /\ [][Next]_vars

(***************************************************************************)
(* Properties.                                                             *)
(***************************************************************************)
\* the rows of a frame held in a variable, none while the variable is empty
RowsOf(held) == IF held = <<>> THEN {} ELSE Range(held[1].rows)

\* the snapshots computed so far
Snapshots == Range(global_kpis) \cup Range(view_kpis)

\* the frames aggregated so far, each with the outcome of its aggregation
Aggregated ==
  (IF pc \in {"global", "filtered", "done"} \/ (pc = "failed" /\ df # <<>> /\ filtered_df = <<>>)
   THEN {[frame |-> df[1], kpis |-> global_kpis]} ELSE {})
  \cup (IF pc = "done" \/ (pc = "failed" /\ filtered_df # <<>>)
        THEN {[frame |-> filtered_df[1], kpis |-> view_kpis]} ELSE {})

\* the k-th smallest element of a set of numbers
KthSmallest(S, k) == CHOOSE i \in S : Cardinality({j \in S : j < i}) = k - 1

\* C1: aggregating an empty record collection never fails and yields
\* total_items = 0 with tracked_pct, low_cost_pct, sem_uso_pct and
\* top_centros_share all equal to 0, never NaN.
C1_EmptyAggregateIsZero ==
  \A a \in Aggregated :
    a.frame.rows = <<>> =>
      /\ a.kpis # <<>>
      /\ a.kpis[1].total_items = 0
      /\ FloatIs(a.kpis[1].tracked_pct, 0)
      /\ FloatIs(a.kpis[1].low_cost_pct, 0)
      /\ FloatIs(a.kpis[1].sem_uso_pct, 0)
      /\ FloatIs(a.kpis[1].top_centros_share, 0)

\* C2: apply_priority_filter returns the frame unchanged when the selection
\* is "Inventário completo" or is the priority of no row; otherwise it
\* returns exactly the rows whose priority is the selection, in their order.
C2_FilterByPriority ==
  filtered_df # <<>> =>
    LET whole == df[1]
        view == filtered_df[1]
        keep == {i \in 1..Len(whole.rows) : whole.rows[i][col_prioridade] = selection}
    IN IF selection = INVENTARIO_COMPLETO \/ keep = {}
       THEN view = whole
       ELSE /\ view.columns = whole.columns
            /\ Len(view.rows) = Cardinality(keep)
            /\ \A k \in 1..Len(view.rows) :
                 view.rows[k] = whole.rows[KthSmallest(keep, k)]

\* C2 witness: a selection kept two of three rows, dropping the middle one
C2_Witness ==
  /\ filtered_df # <<>>
  /\ selection = ESSENCIAL
  /\ Len(df[1].rows) = 3
  /\ df[1].rows[2][col_prioridade] # ESSENCIAL
  /\ filtered_df[1].rows = <<df[1].rows[1], df[1].rows[3]>>
  /\ df[1].rows[1] # df[1].rows[3]

\* C3: in every snapshot total_dep is the sum of dep_referencia over the
\* rows aggregated, and avg_dep is total_dep / max(total_items, 1).
C3_TotalDepreciation ==
  \A a \in Aggregated :
    a.kpis # <<>> =>
      /\ a.kpis[1].total_dep = SumCells(Col(a.frame, col_dep_referencia))
      /\ FloatEq(a.kpis[1].avg_dep,
                 Frac(a.kpis[1].total_dep,
                      IF a.kpis[1].total_items > 1 THEN a.kpis[1].total_items ELSE 1))

\* C4: priority is first match wins: Premium controlado for a row with is_mac
\* or is_license; else Essencial when the item type, compared without regard
\* to case, is computador, telefone, monitor or impressora; else Não essencial.
C4_PriorityFirstMatch ==
  \A row \in RowsOf(df) :
    LET essential == /\ ~row[col_tipo_item].na
                     /\ \E t \in ESSENTIAL_TYPES : Lower(row[col_tipo_item].v) = Lower(t)
    IN row[col_prioridade] =
         IF row[col_is_mac] \/ row[col_is_license] THEN PREMIUM
         ELSE IF essential THEN ESSENCIAL
         ELSE NAO_ESSENCIAL

\* C4 witness: a mac whose item type is "Computador" is Premium controlado,
\* beside a "COMPUTADOR" that is Essencial and a row that is Não essencial
C4_Witness ==
  /\ \E row \in RowsOf(df) :
       /\ row[col_is_mac]
       /\ Lower(row[col_tipo_item].v) = <<"c", "o", "m", "p", "u", "t", "a", "d", "o", "r">>
       /\ row[col_prioridade] = PREMIUM
  /\ \E row \in RowsOf(df) :
       /\ row[col_tipo_item].v = <<"C", "O", "M", "P", "U", "T", "A", "D", "O", "R">>
       /\ row[col_prioridade] = ESSENCIAL
  /\ \E row \in RowsOf(df) : row[col_prioridade] = NAO_ESSENCIAL

\* C5: dep_referencia is the unit depreciation when neither flag is set,
\* MAC_REFERENCE_DEPRECIATION when only is_mac is set, and
\* LICENSE_REFERENCE_DEPRECIATION whenever is_license is set.
C5_ReferenceDepreciation ==
  \A row \in RowsOf(df) :
    row[col_dep_referencia] =
      IF row[col_is_license] THEN Num(LICENSE_REFERENCE_DEPRECIATION)
      ELSE IF row[col_is_mac] THEN Num(MAC_REFERENCE_DEPRECIATION)
      ELSE row[col_depreciacao_unitaria]

\* C5 witness: a row with both flags has the license value, beside a mac
\* without license and a row with neither flag
C5_Witness ==
  /\ \E row \in RowsOf(df) :
       /\ row[col_is_mac] /\ row[col_is_license]
       /\ row[col_dep_referencia] = Num(LICENSE_REFERENCE_DEPRECIATION)
  /\ \E row \in RowsOf(df) :
       /\ row[col_is_mac] /\ ~row[col_is_license]
       /\ row[col_dep_referencia] = Num(MAC_REFERENCE_DEPRECIATION)
  /\ \E row \in RowsOf(df) :
       /\ ~row[col_is_mac] /\ ~row[col_is_license]
       /\ row[col_dep_referencia] = row[col_depreciacao_unitaria]
       /\ row[col_dep_referencia].v \notin
            {MAC_REFERENCE_DEPRECIATION, LICENSE_REFERENCE_DEPRECIATION}

\* C6: in the canonical frame and in every filtered view, rastreados is
\* tem_usuario and tem_inventario; a row with an empty owner and the
\* inventory sentinel is not tracked.
C6_TrackedIsOwnerAndCode ==
  \A row \in RowsOf(df) \cup RowsOf(filtered_df) :
    /\ row[col_rastreados] = (row[col_tem_usuario] /\ row[col_tem_inventario])
    /\ row[col_tem_usuario] = (row[col_usuario].v # <<>>)
    /\ (row[col_usuario].v = <<>> /\ row[col_numero_inventario].v = SEM_INVENTARIO)
         => ~row[col_rastreados]

\* C6 witness: a filtered view holds a row with an empty owner and the
\* sentinel, a row with an owner and no code, and a tracked row
C6_Witness ==
  /\ filtered_df # <<>>
  /\ Len(filtered_df[1].rows) < Len(df[1].rows)
  /\ \E row \in RowsOf(filtered_df) :
       /\ row[col_usuario].v = <<>>
       /\ row[col_numero_inventario].v = SEM_INVENTARIO
       /\ ~row[col_rastreados]
  /\ \E row \in RowsOf(df) :
       row[col_tem_usuario] /\ ~row[col_tem_inventario] /\ ~row[col_rastreados]
  /\ \E row \in RowsOf(df) : row[col_rastreados]

\* C7: in every snapshot the totals of centros add up to patrimonio_total,
\* also when the group of a row is missing.
C7_GroupTotalsAddUp ==
  \A k \in Snapshots :
    SumCells([i \in 1..Len(k.centros) |-> Num(k.centros[i].valor_unitario)])
      = k.patrimonio_total

\* the position of the first row of group g in a frame
FirstSeen(frame, g) ==
  CHOOSE i \in 1..Len(frame.rows) :
    /\ frame.rows[i][col_grupo] = Str(g)
    /\ \A j \in 1..(i - 1) : frame.rows[j][col_grupo] # Str(g)

\* centros is in descending order of total
Descending(centros) ==
  \A i, j \in 1..Len(centros) :
    i < j => centros[i].valor_unitario >= centros[j].valor_unitario

\* top_centros_names names the first two groups of centros, fewer if fewer exist
NamesFirstTwo(k) ==
  k.top_centros_names =
    IF Len(k.centros) = 0 THEN <<>>
    ELSE IF Len(k.centros) = 1 THEN k.centros[1].grupo
    ELSE k.centros[1].grupo \o <<",", " ">> \o k.centros[2].grupo

\* C8 as stated: centros is in descending order of total, groups of equal
\* total in the order in which they first appear in the input, and
\* top_centros_names names the first two groups of that order.
C8_TiesInFirstSeenOrder ==
  \A a \in Aggregated :
    a.kpis # <<>> =>
      LET centros == a.kpis[1].centros IN
      /\ Descending(centros)
      /\ \A i, j \in 1..Len(centros) :
           (i < j /\ centros[i].valor_unitario = centros[j].valor_unitario)
             => FirstSeen(a.frame, centros[i].grupo) < FirstSeen(a.frame, centros[j].grupo)
      /\ NamesFirstTwo(a.kpis[1])

\* C8 amended: centros holds each group present once, with the sum of its
\* values, in descending order of total (the order of equal totals is left
\* open), and top_centros_names names the first two groups of that order.
C8_DescendingTopTwo ==
  \A a \in Aggregated :
    a.kpis # <<>> =>
      LET centros == a.kpis[1].centros
          grupo == Col(a.frame, col_grupo)
          present == {c.v : c \in {x \in Range(grupo) : ~x.na}}
      IN /\ Descending(centros)
         /\ {centros[i].grupo : i \in 1..Len(centros)} = present
         /\ Len(centros) = Cardinality(present)
         /\ \A i \in 1..Len(centros) :
              centros[i].valor_unitario =
                SumCells([r \in 1..Len(grupo) |->
                            IF grupo[r] = Str(centros[i].grupo)
                            THEN a.frame.rows[r][col_valor_unitario] ELSE Num(0)])
         /\ NamesFirstTwo(a.kpis[1])

\* C8 witness: the whole frame has three groups and names the first two of
\* centros; the filtered view has TI = 1000 and RH = 500, named "TI, RH"
C8_Witness ==
  /\ global_kpis # <<>> /\ view_kpis # <<>>
  /\ Len(global_kpis[1].centros) = 3
  /\ global_kpis[1].centros[1].valor_unitario > global_kpis[1].centros[3].valor_unitario
  /\ NamesFirstTwo(global_kpis[1])
  /\ view_kpis[1].centros = <<[grupo |-> <<"T", "I">>, valor_unitario |-> 1000],
                              [grupo |-> <<"R", "H">>, valor_unitario |-> 500]>>
  /\ view_kpis[1].top_centros_names = <<"T", "I", ",", " ", "R", "H">>

\* whether no label of the sheet resolves to the column
Unresolved(column) ==
  \A label \in sheet.columns : MapColumn(_normalize_column(label)) # column

\* C9: load_inventory fails on the schema exactly when one of the columns
\* valor_unitario, depreciacao_unitaria, status, nome, tipo_item, grupo
\* cannot be resolved from the normalized labels; a missing usuario or
\* numero_inventario column is no error and gets its default.
C9_SchemaErrorIffRequiredMissing ==
  pc # "start" =>
    LET required == {col_valor_unitario, col_depreciacao_unitaria, col_status,
                     col_nome, col_tipo_item, col_grupo}
        required_missing == \E c \in required : Unresolved(c)
        schema_error == df = <<>> /\ error = "KeyError"
    IN /\ schema_error <=> required_missing
       /\ (~required_missing /\ Unresolved(col_usuario) /\ df # <<>>)
            => \A row \in RowsOf(df) : row[col_usuario] = Str(<<>>)
       /\ (~required_missing /\ Unresolved(col_numero_inventario) /\ df # <<>>)
            => \A row \in RowsOf(df) : row[col_numero_inventario] = Str(SEM_INVENTARIO)

\* whether load_inventory produced df from the sheet
LoadedFromSheet == df # <<>> /\ Len(df[1].rows) = Len(sheet.rows) /\ sheet.rows # <<>>

\* C10: no canonical row has an empty numero_inventario: an inventory number
\* that is missing, empty or blank in the sheet becomes "Sem inventário",
\* and the row has tem_inventario false.
C10_InventoryCodeNeverEmpty ==
  LoadedFromSheet =>
    \A i \in 1..Len(sheet.rows) :
      LET raw == sheet.rows[i][LABEL_NUMERO]
          row == df[1].rows[i]
      IN /\ row[col_numero_inventario].v # <<>>
         /\ (raw.na \/ Strip(raw.v) = <<>>)
              => /\ row[col_numero_inventario].v = SEM_INVENTARIO
                 /\ ~row[col_tem_inventario]

\* C11: in every run of render, the records handed to the priority filter
\* and to the aggregator have passed through the normalizer: the frame the
\* loader returned is what lines 52-98 make of the workbook, with the
\* canonical columns, the derived flags and the priority, and the filtered
\* view is made of rows of that frame.
C11_RenderHandsCanonicalRecords ==
  df # <<>> =>
    /\ load_inventory(sheet) = Returned(df[1])
    /\ EmptyCanonical.columns \subseteq df[1].columns
    /\ filtered_df # <<>> =>
         /\ EmptyCanonical.columns \subseteq filtered_df[1].columns
         /\ RowsOf(filtered_df) \subseteq RowsOf(df)

====
